---- MODULE Spec2Model ----
(***************************************************************************)
(* A model of polyplay.py: the polybar module that tracks the media        *)
(* players reported by playerctl, selects one of them for display and      *)
(* scrolls its title.                                                      *)
(*                                                                         *)
(* The main loop (PolyPlay.update) is modelled step by step, one action    *)
(* per statement that reads or writes shared state, because the SIGUSR1    *)
(* and SIGUSR2 handlers (cycle_player, reverse_cycle_player) run between   *)
(* any two bytecodes of the main thread.  The outside world (the players   *)
(* playerctl knows and their status) changes between any two queries.      *)
(*                                                                         *)
(* Strings are sequences of one-character strings.  Python positions are   *)
(* 0-based; a TLA+ sequence is 1-based, so list[i] is written seq[i + 1].  *)
(***************************************************************************)
EXTENDS Integers, Sequences, FiniteSets, TLC

VARIABLES
    player_list,        \* PolyPlay.player_list: sequence of Player records
    display_index,      \* PolyPlay.display_index
    scrolling_msg_len,  \* Config.scrolling_msg_len (set once, never re-read)
    status,             \* world: what `playerctl -p n status` answers, per name
    media,              \* world: what Player.metadata formats for a name (MetaSpec:
                        \*        the record playerctl prints for it)
    pc,                 \* position of the main thread
    new_list,           \* _update_player_list: local new_list
    it,                 \* _update_player_list: position of the list iterator
    loaded_index,       \* _select_player_to_display: display_index as last loaded
    active_player,      \* update: position in player_list of active_player, 0 = None
    playing,            \* _update_scrolling_text: result of player.is_playing
    error,              \* the exception that ended the loop, or "none"
    snapshot,           \* history: what get_available_players returned this tick
    old_list,           \* history: player_list when this tick's reconcile began
    seen_stopped,       \* history: names this tick's reconcile saw Stopped
    index_at_call,      \* history: display_index when selection began
    last_active,        \* history: position the last tick selected, 0 = None or
                        \*          forgotten because a signal has arrived since
    first_stopped       \* history: names found Stopped when reconcile met them,
                        \*          listed by every list query since; forgotten when
                        \*          the reconcile that added them has returned

vars == <<player_list, display_index, scrolling_msg_len, status, media, pc,
          new_list, it, loaded_index, active_player, playing, error,
          snapshot, old_list, seen_stopped, index_at_call, last_active,
          first_stopped>>

(***************************************************************************)
(* Bounds of the model.                                                    *)
(***************************************************************************)
NumNames == 2       \* player names are 1..NumNames
MaxIndex == 2       \* the handlers stop counting at |display_index| = MaxIndex
MaxText == 2        \* longest metadata text of the scrolling specification
MaxWindow == 4      \* largest scrolling_msg_len of the scrolling specification
MaxRecord == 5      \* longest record of the metadata specification

\* Config.scrolling_msg_len as the source sets it
Config_scrolling_msg_len == 15

Names == 1..NumNames
Chars == {"a", "b"}
Statuses == {"Playing", "Paused", "Stopped", "NoPlayer"}

(***************************************************************************)
(* Python list and string primitives.                                      *)
(***************************************************************************)
Min(a, b) == IF a <= b THEN a ELSE b

Range(s) == {s[k] : k \in 1..Len(s)}

\* s[a:b] for 0 <= a, 0 <= b: positions a .. min(b, len) - 1
Slice(s, a, b) ==
    IF a >= Min(b, Len(s)) THEN <<>> ELSE SubSeq(s, a + 1, Min(b, Len(s)))

\* del s[k - 1]: the sequence without its k-th element
RemoveAt(s, k) == SubSeq(s, 1, k - 1) \o SubSeq(s, k + 1, Len(s))

\* list.remove(x): the sequence without the first occurrence of x
RemoveFirst(s, x) ==
    LET k == CHOOSE k \in 1..Len(s) : s[k] = x /\ \A m \in 1..(k - 1) : s[m] # x
    IN RemoveAt(s, k)

\* " " * n
Spaces(n) == [k \in 1..n |-> " "]

\* every sequence over S of length at most n
SeqsUpTo(S, n) == UNION {[1..k -> S] : k \in 0..n}

\* the orders in which a set of names can be listed
Orderings(S) ==
    {s \in [1..Cardinality(S) -> S] : \A a, b \in 1..Cardinality(S) : a # b => s[a] # s[b]}

(***************************************************************************)
(* Utils.center_text and the window of _update_scrolling_text.             *)
(***************************************************************************)
\* center_text padding up to msg_display_len, without the - 1 of line 60
center_text_full(text_to_center, msg_display_len) ==
    IF Len(text_to_center) >= msg_display_len
    THEN Slice(text_to_center, 0, msg_display_len)
    ELSE LET left_padding == Spaces((msg_display_len - Len(text_to_center)) \div 2)
             right_padding ==
                 Spaces(msg_display_len - (Len(left_padding) + Len(text_to_center)))
         IN left_padding \o text_to_center \o right_padding

center_text(text_to_center, msg_display_len) ==
    IF Len(text_to_center) >= msg_display_len
    THEN Slice(text_to_center, 0, msg_display_len)
    ELSE LET left_padding == Spaces((msg_display_len - Len(text_to_center)) \div 2)
             right_padding ==
                 Spaces(msg_display_len - (Len(left_padding) + Len(text_to_center)) - 1)
         IN left_padding \o text_to_center \o right_padding

\* full_media_text = player.metadata + " " * 2
full_media_text(metadata) == metadata \o Spaces(2)

\* the text _update_scrolling_text builds for a playing player
scrolling_text(metadata, start_index, msg_len) ==
    LET full == full_media_text(metadata)
        trunc_start == start_index
        trunc_end == trunc_start + msg_len
        shortened == Slice(full, trunc_start, trunc_end)
        padding_needed == Len(shortened) < msg_len
        padding_text ==
            IF padding_needed
            THEN Slice(full, 0, (start_index + msg_len) % Len(full))
            ELSE <<>>
    IN shortened \o padding_text

\* the start index _update_scrolling_text leaves for the next tick
next_start_index(metadata, start_index) ==
    (start_index + 1) % Len(full_media_text(metadata))

(***************************************************************************)
(* Player.metadata: the record playerctl prints for the format of line 187 *)
(* and the text made of it.                                                *)
(***************************************************************************)
\* Config.error_text
error_text == <<"e", "r", "r", "o", "r", " ", "t", "e", "x", "t">>

\* str.split(sep)
RECURSIVE split(_, _)
split(s, sep) ==
    IF \E k \in 1..Len(s) : s[k] = sep
    THEN LET k == CHOOSE i \in 1..Len(s) :
                      s[i] = sep /\ \A j \in 1..(i - 1) : s[j] # sep
         IN <<SubSeq(s, 1, k - 1)>> \o split(SubSeq(s, k + 1, Len(s)), sep)
    ELSE <<s>>

\* sep.join(fields)
RECURSIVE join(_, _)
join(fields, sep) ==
    IF fields = <<>> THEN <<>>
    ELSE IF Len(fields) = 1 THEN fields[1]
    ELSE fields[1] \o <<sep>> \o join(Tail(fields), sep)

\* re.sub(r"%20", " ", s)
RECURSIVE sub_percent_20(_)
sub_percent_20(s) ==
    IF s = <<>> THEN <<>>
    ELSE IF Len(s) >= 3 /\ SubSeq(s, 1, 3) = <<"%", "2", "0">>
    THEN <<" ">> \o sub_percent_20(SubSeq(s, 4, Len(s)))
    ELSE <<s[1]>> \o sub_percent_20(Tail(s))

\* Utils.clean_track_title; nothing in polyplay.py calls it
clean_track_title(title_to_clean) ==
    LET segments == split(title_to_clean, "/")
    IN sub_percent_20(segments[Len(segments)])

\* lines 192-211 of Player.metadata: the text made of the record playerctl
\* printed; english_text_only is False (line 40)
Player_metadata(record, msg_len) ==
    LET metadata == split(record, ",")
    IN IF Len(metadata) < 3
       THEN center_text(error_text, msg_len)
       ELSE LET title == metadata[1]
                artists == SubSeq(metadata, 2, Len(metadata) - 1)
                vlc_title == metadata[Len(metadata)]
                shown_title == IF title # <<>> THEN title ELSE vlc_title
            IN shown_title \o <<" ", "-", " ">> \o join(artists, ",")

(***************************************************************************)
(* Player.__init__                                                         *)
(***************************************************************************)
Player(name) ==
    [player_name |-> name, display_text |-> <<>>, display_text_start_index |-> 0]

PlayerNames(list) == {list[k].player_name : k \in 1..Len(list)}

\* get_available_players: the names playerctl -l lists
Available(st) == {n \in Names : st[n] # "NoPlayer"}

(***************************************************************************)
(* _update_player_list, one iteration of each of its two loops.            *)
(***************************************************************************)
\* the body of `for existing_player in self.player_list`, the list iterator
\* standing at Python position i
remove_loop_body(list, names, i) ==
    LET existing_player == list[i + 1]
        gone == existing_player.player_name \notin Range(names)
    IN [list  |-> IF gone THEN RemoveAt(list, i + 1) ELSE list,
        names |-> IF gone THEN names ELSE RemoveFirst(names, existing_player.player_name)]

\* add_loop_body with the new Player put in front of the list
add_loop_body_in_front(list, name, st) ==
    IF st = "Stopped" THEN list ELSE <<Player(name)>> \o list

\* add_loop_body adding none but the players that play
add_loop_body_playing_only(list, name, st) ==
    IF st = "Playing" THEN Append(list, Player(name)) ELSE list

\* the body of `for player in new_list`, for a name whose status query answered st
add_loop_body(list, name, st) ==
    IF st = "Stopped" THEN list ELSE Append(list, Player(name))

RECURSIVE remove_loop(_, _, _)
remove_loop(list, names, i) ==
    IF i >= Len(list)
    THEN [list |-> list, names |-> names]
    ELSE LET r == remove_loop_body(list, names, i)
         IN remove_loop(r.list, r.names, i + 1)

RECURSIVE add_loop(_, _, _, _)
add_loop(list, names, i, st) ==
    IF i >= Len(names)
    THEN list
    ELSE add_loop(add_loop_body(list, names[i + 1], st[names[i + 1]]), names, i + 1, st)

\* one whole call of _update_player_list on a list, for the snapshot playerctl -l
\* returned and the statuses the status queries answer
update_player_list(list, names, st) ==
    IF Len(names) # Len(list)
    THEN LET r == remove_loop(list, names, 0)
         IN add_loop(r.list, r.names, 0, st)
    ELSE list

(***************************************************************************)
(* The initial state: PolyPlay.__init__, and a world.  Every player's       *)
(* metadata is the empty text here; ScrollInit draws the texts.            *)
(***************************************************************************)
Locals0 ==
    /\ new_list = <<>>
    /\ it = 0
    /\ loaded_index = 0
    /\ active_player = 0
    /\ playing = FALSE
    /\ snapshot = <<>>
    /\ old_list = <<>>
    /\ seen_stopped = {}
    /\ index_at_call = 0
    /\ last_active = 0
    /\ first_stopped = {}

Init ==
    /\ player_list = <<>>
    /\ display_index = 0
    /\ scrolling_msg_len = Config_scrolling_msg_len
    /\ status \in [Names -> Statuses]
    /\ media = [n \in Names |-> <<>>]
    /\ pc = "update_player_list"
    /\ error = "none"
    /\ Locals0

\* subprocess.check_output raises CalledProcessError, nothing catches it
Raise(exception) ==
    /\ pc' = "crashed"
    /\ error' = exception

(***************************************************************************)
(* PolyPlay._update_player_list                                            *)
(***************************************************************************)
\* lines 391-393: the list query and the comparison of the two lengths
UpdatePlayerList ==
    /\ pc = "update_player_list"
    /\ \E listed \in Orderings(Available(status)) :
          /\ new_list' = listed
          /\ snapshot' = listed
          /\ pc' = IF Len(listed) # Len(player_list) THEN "remove_loop" ELSE "select"
          /\ first_stopped' = first_stopped \cap Range(listed)
    /\ old_list' = player_list
    /\ seen_stopped' = {}
    /\ it' = 0
    /\ UNCHANGED <<player_list, display_index, scrolling_msg_len, status, media,
                   loaded_index, active_player, playing, error, index_at_call,
                   last_active>>

\* lines 394-400: one step of the iterator over self.player_list
RemoveLoop ==
    /\ pc = "remove_loop"
    /\ IF it < Len(player_list)
       THEN LET r == remove_loop_body(player_list, new_list, it)
            IN /\ player_list' = r.list
               /\ new_list' = r.names
               /\ it' = it + 1
               /\ pc' = pc
       ELSE /\ it' = 0
            /\ pc' = "add_loop"
            /\ UNCHANGED <<player_list, new_list>>
    /\ UNCHANGED <<display_index, scrolling_msg_len, status, media, loaded_index,
                   active_player, playing, error, snapshot, old_list, seen_stopped,
                   index_at_call, last_active, first_stopped>>

\* lines 402-407: one step of the iterator over new_list
AddLoop ==
    /\ pc = "add_loop"
    /\ IF it < Len(new_list)
       THEN LET player == new_list[it + 1]
            IN IF status[player] = "NoPlayer"
               THEN /\ Raise("CalledProcessError")
                    /\ UNCHANGED <<player_list, it, seen_stopped, first_stopped>>
               ELSE /\ player_list' = add_loop_body(player_list, player, status[player])
                    /\ first_stopped' =
                          IF status[player] = "Stopped"
                             /\ player \notin PlayerNames(player_list)
                          THEN first_stopped \union {player}
                          ELSE first_stopped
                    /\ seen_stopped' = IF status[player] = "Stopped"
                                       THEN seen_stopped \union {player}
                                       ELSE seen_stopped
                    /\ it' = it + 1
                    /\ UNCHANGED <<pc, error>>
       ELSE /\ pc' = "select"
            /\ UNCHANGED <<player_list, it, seen_stopped, first_stopped, error>>
    /\ UNCHANGED <<display_index, scrolling_msg_len, status, media, new_list,
                   loaded_index, active_player, playing, snapshot, old_list,
                   index_at_call, last_active>>

(***************************************************************************)
(* PolyPlay._select_player_to_display                                      *)
(***************************************************************************)
\* lines 423-431: the tests of the length, and the comparison of line 431
SelectPlayerToDisplay ==
    /\ pc = "select"
    /\ index_at_call' = display_index
    /\ IF Len(player_list) < 1
       THEN /\ display_index' = 0
            /\ active_player' = 0
            /\ pc' = "default_text"
       ELSE IF Len(player_list) = 1
       THEN /\ display_index' = 0
            /\ pc' = "select_return"
            /\ UNCHANGED active_player
       ELSE /\ pc' = IF display_index >= Len(player_list) - 1
                     THEN "select_mod_load"
                     ELSE "select_negative"
            /\ UNCHANGED <<display_index, active_player>>
    \* the locals of _update_player_list are gone
    /\ new_list' = <<>>
    /\ it' = 0
    /\ snapshot' = <<>>
    /\ seen_stopped' = {}
    /\ first_stopped' = first_stopped \ PlayerNames(player_list)
    /\ UNCHANGED <<player_list, scrolling_msg_len, status, media, loaded_index,
                   playing, error, old_list, last_active>>

\* line 432, the right-hand side: self.display_index is loaded
SelectModLoad ==
    /\ pc = "select_mod_load"
    /\ loaded_index' = display_index
    /\ pc' = "select_mod_store"
    /\ UNCHANGED <<player_list, display_index, scrolling_msg_len, status, media,
                   new_list, it, active_player, playing, error, snapshot, old_list,
                   seen_stopped, index_at_call, last_active, first_stopped>>

\* wrapped_index without the remainder
wrapped_index_unwrapped(index, length) == index

\* the value line 432 stores for a loaded index
wrapped_index(index, length) == index % length

\* lines 431-435 run without interruption: what they make of an index, for a
\* list of two players or more
clamped_index(index, length) ==
    LET wrapped == IF index >= length - 1 THEN wrapped_index(index, length) ELSE index
    IN IF wrapped < 0 THEN length - 1 ELSE wrapped

\* line 432, the assignment: the remainder of the loaded value is stored
SelectModStore ==
    /\ pc = "select_mod_store"
    /\ display_index' = wrapped_index(loaded_index, Len(player_list))
    /\ loaded_index' = 0
    /\ pc' = "select_negative"
    /\ UNCHANGED <<player_list, scrolling_msg_len, status, media, new_list, it,
                   active_player, playing, error, snapshot, old_list, seen_stopped,
                   index_at_call, last_active, first_stopped>>

\* line 434
SelectNegative ==
    /\ pc = "select_negative"
    /\ pc' = IF display_index < 0 THEN "select_negative_store" ELSE "select_return"
    /\ UNCHANGED <<player_list, display_index, scrolling_msg_len, status, media,
                   new_list, it, loaded_index, active_player, playing, error,
                   snapshot, old_list, seen_stopped, index_at_call, last_active, first_stopped>>

\* line 435
SelectNegativeStore ==
    /\ pc = "select_negative_store"
    /\ display_index' = Len(player_list) - 1
    /\ pc' = "select_return"
    /\ UNCHANGED <<player_list, scrolling_msg_len, status, media, new_list, it,
                   loaded_index, active_player, playing, error, snapshot, old_list,
                   seen_stopped, index_at_call, last_active, first_stopped>>

\* list[i] of Python: the position (from 1) it reads, 0 when it raises IndexError
Subscript(length, i) ==
    IF 0 <= i /\ i < length THEN i + 1
    ELSE IF -length <= i /\ i < 0 THEN length + i + 1
    ELSE 0

\* lines 429 and 437: return self.player_list[self.display_index]
SelectReturn ==
    /\ pc = "select_return"
    /\ IF Subscript(Len(player_list), display_index) = 0
       THEN /\ Raise("IndexError")
            /\ UNCHANGED active_player
       ELSE /\ active_player' = Subscript(Len(player_list), display_index)
            /\ pc' = "is_playing"
            /\ UNCHANGED error
    /\ UNCHANGED <<player_list, display_index, scrolling_msg_len, status, media,
                   new_list, it, loaded_index, playing, snapshot, old_list,
                   seen_stopped, index_at_call, last_active, first_stopped>>

(***************************************************************************)
(* PolyPlay.cycle_player and PolyPlay.reverse_cycle_player, the handlers   *)
(* of SIGUSR1 and SIGUSR2.  A handler runs to its end once it has begun.   *)
(*                                                                         *)
(* A signal arrives at any time.  From the selection's return to the end   *)
(* of the tick the main thread neither reads display_index nor changes the *)
(* length of player_list, so a handler that runs there does what it does   *)
(* at the start of the next tick: the model runs it there.                 *)
(***************************************************************************)
SignalPoints ==
    {"update_player_list", "remove_loop", "add_loop", "select", "select_mod_load",
     "select_mod_store", "select_negative", "select_negative_store", "select_return"}

\* cycle_player bringing the index into the range of the list at once
CyclePlayer_wrapping ==
    /\ pc \in SignalPoints
    /\ IF Len(player_list) <= 1
       THEN display_index' = 0
       ELSE /\ display_index < MaxIndex
            /\ display_index' = (display_index + 1) % Len(player_list)
    /\ last_active' = 0
    /\ UNCHANGED <<player_list, scrolling_msg_len, status, media, pc, new_list, it,
                   loaded_index, active_player, playing, error, snapshot, old_list,
                   seen_stopped, index_at_call, first_stopped>>

CyclePlayer ==
    /\ pc \in SignalPoints
    /\ IF Len(player_list) <= 1
       THEN display_index' = 0
       ELSE /\ display_index < MaxIndex
            /\ display_index' = display_index + 1
    /\ last_active' = 0
    /\ UNCHANGED <<player_list, scrolling_msg_len, status, media, pc, new_list, it,
                   loaded_index, active_player, playing, error, snapshot, old_list,
                   seen_stopped, index_at_call, first_stopped>>

ReverseCyclePlayer ==
    /\ pc \in SignalPoints
    /\ IF Len(player_list) <= 1
       THEN display_index' = 0
       ELSE /\ display_index > -MaxIndex
            /\ display_index' = display_index - 1
    /\ last_active' = 0
    /\ UNCHANGED <<player_list, scrolling_msg_len, status, media, pc, new_list, it,
                   loaded_index, active_player, playing, error, snapshot, old_list,
                   seen_stopped, index_at_call, first_stopped>>

(***************************************************************************)
(* PolyPlay._update_scrolling_text and the rest of a tick.                 *)
(***************************************************************************)
\* lines 356-360 and 364-386: what the player becomes, given its metadata
scrolled(player, is_playing, metadata, msg_len) ==
    IF is_playing
    THEN [player EXCEPT
            !.display_text = scrolling_text(metadata, player.display_text_start_index, msg_len),
            !.display_text_start_index =
                next_start_index(metadata, player.display_text_start_index)]
    ELSE [player EXCEPT !.display_text = center_text(metadata, msg_len)]

\* is_playing followed by an update whether or not a text is cached
IsPlaying_ignoring_cache ==
    /\ pc = "is_playing"
    /\ LET player == player_list[active_player]
       IN IF status[player.player_name] = "NoPlayer"
          THEN /\ Raise("CalledProcessError")
               /\ UNCHANGED playing
          ELSE /\ playing' = (status[player.player_name] = "Playing")
               /\ pc' = "exists"
               /\ UNCHANGED error
    /\ index_at_call' = 0
    /\ old_list' = <<>>
    /\ UNCHANGED <<player_list, display_index, scrolling_msg_len, status, media,
                   new_list, it, loaded_index, active_player, snapshot,
                   seen_stopped, last_active, first_stopped>>

\* line 353: player.is_playing, a status query
IsPlaying ==
    /\ pc = "is_playing"
    /\ LET player == player_list[active_player]
       IN IF status[player.player_name] = "NoPlayer"
          THEN /\ Raise("CalledProcessError")
               /\ UNCHANGED playing
          ELSE /\ playing' = (status[player.player_name] = "Playing")
               /\ pc' = IF playing' \/ player.display_text = <<>>
                        THEN "exists"
                        ELSE "render"
               /\ UNCHANGED error
    /\ index_at_call' = 0
    /\ old_list' = <<>>
    /\ UNCHANGED <<player_list, display_index, scrolling_msg_len, status, media,
                   new_list, it, loaded_index, active_player, snapshot,
                   seen_stopped, last_active, first_stopped>>

\* lines 176-177: Player.metadata asks whether the player exists, a list query;
\* the metadata of a player that does not is ""
Exists ==
    /\ pc = "exists"
    /\ LET player == player_list[active_player]
       IN IF player.player_name \in Available(status)
          THEN /\ pc' = "metadata"
               /\ UNCHANGED player_list
          ELSE /\ player_list' = [player_list EXCEPT ![active_player] =
                                     scrolled(player, playing, <<>>, scrolling_msg_len)]
               /\ pc' = "render"
    /\ UNCHANGED <<display_index, scrolling_msg_len, status, media, new_list, it,
                   loaded_index, active_player, playing, error, snapshot, old_list,
                   seen_stopped, index_at_call, last_active, first_stopped>>

\* lines 179-211: the metadata query, then the rest of _update_scrolling_text
Metadata ==
    /\ pc = "metadata"
    /\ LET player == player_list[active_player]
       IN IF status[player.player_name] = "NoPlayer"
          THEN /\ Raise("CalledProcessError")
               /\ UNCHANGED player_list
          ELSE /\ player_list' = [player_list EXCEPT ![active_player] =
                                     scrolled(player, playing,
                                              media[player.player_name], scrolling_msg_len)]
               /\ pc' = "render"
               /\ UNCHANGED error
    /\ UNCHANGED <<display_index, scrolling_msg_len, status, media, new_list, it,
                   loaded_index, active_player, playing, snapshot, old_list,
                   seen_stopped, index_at_call, last_active, first_stopped>>

\* Metadata when media holds the record playerctl prints, not the text made of it
MetadataRecord ==
    /\ pc = "metadata"
    /\ LET player == player_list[active_player]
       IN IF status[player.player_name] = "NoPlayer"
          THEN /\ Raise("CalledProcessError")
               /\ UNCHANGED player_list
          ELSE /\ player_list' = [player_list EXCEPT ![active_player] =
                                     scrolled(player, playing,
                                              Player_metadata(media[player.player_name],
                                                              scrolling_msg_len),
                                              scrolling_msg_len)]
               /\ pc' = "render"
               /\ UNCHANGED error
    /\ UNCHANGED <<display_index, scrolling_msg_len, status, media, new_list, it,
                   loaded_index, active_player, playing, snapshot, old_list,
                   seen_stopped, index_at_call, last_active, first_stopped>>

\* the end of a tick: the locals are gone, time.sleep, and the loop begins again
EndOfTick ==
    /\ pc' = "update_player_list"
    /\ active_player' = 0
    /\ playing' = FALSE
    /\ index_at_call' = 0
    /\ old_list' = <<>>
    /\ last_active' = active_player
    /\ UNCHANGED <<player_list, display_index, scrolling_msg_len, status, media,
                   new_list, it, loaded_index, snapshot, seen_stopped, first_stopped>>

\* lines 469-490: the line of the active player; line 482 queries its status again
Render ==
    /\ pc = "render"
    /\ IF status[player_list[active_player].player_name] = "NoPlayer"
       THEN /\ Raise("CalledProcessError")
            /\ UNCHANGED <<player_list, display_index, scrolling_msg_len, status,
                           media, new_list, it, loaded_index, active_player, playing,
                           snapshot, old_list, seen_stopped, index_at_call, last_active, first_stopped>>
       ELSE /\ EndOfTick
            /\ UNCHANGED error

\* line 493: the default text, no player being active
DefaultText ==
    /\ pc = "default_text"
    /\ EndOfTick
    /\ UNCHANGED error

(***************************************************************************)
(* The world: a player appears, vanishes or changes status.  Only a query  *)
(* shows the world to the program, so it is enough that the world changes  *)
(* before a query, any number of times.                                    *)
(***************************************************************************)
QueryPoints ==
    {"update_player_list", "add_loop", "is_playing", "exists", "metadata", "render"}

WorldChange ==
    /\ pc \in QueryPoints
    /\ \E n \in Names :
          \E st \in Statuses \ {status[n]} : status' = [status EXCEPT ![n] = st]
    /\ UNCHANGED <<player_list, display_index, scrolling_msg_len, media, pc, new_list,
                   it, loaded_index, active_player, playing, error, snapshot, old_list,
                   seen_stopped, index_at_call, last_active, first_stopped>>

Tick ==
    \/ UpdatePlayerList
    \/ RemoveLoop
    \/ AddLoop
    \/ SelectPlayerToDisplay
    \/ SelectModLoad
    \/ SelectModStore
    \/ SelectNegative
    \/ SelectNegativeStore
    \/ SelectReturn
    \/ IsPlaying
    \/ Exists
    \/ Metadata
    \/ Render
    \/ DefaultText

Next ==
    \/ Tick
    \/ CyclePlayer
    \/ ReverseCyclePlayer
    \/ WorldChange

Spec == Init /\ [][Next]_vars

(***************************************************************************)
(* The loop as section 5 of the specification describes it: a tick runs    *)
(* from its list query to its output without interruption; the signals     *)
(* arrive and the world changes between two ticks, during time.sleep       *)
(* (line 495).                                                             *)
(***************************************************************************)
SleepCyclePlayer == pc = "update_player_list" /\ CyclePlayer

SleepReverseCyclePlayer == pc = "update_player_list" /\ ReverseCyclePlayer

SleepWorldChange == pc = "update_player_list" /\ WorldChange

SeqNext ==
    \/ Tick
    \/ SleepCyclePlayer
    \/ SleepReverseCyclePlayer
    \/ SleepWorldChange

SeqSpec == Init /\ [][SeqNext]_vars

(***************************************************************************)
(* The loop when no signal arrives: display_index stays 0, and lines 432   *)
(* and 435 never run.  The world changes before any query.                 *)
(***************************************************************************)
RegNext ==
    \/ UpdatePlayerList
    \/ RemoveLoop
    \/ AddLoop
    \/ SelectPlayerToDisplay
    \/ SelectNegative
    \/ SelectReturn
    \/ IsPlaying
    \/ Exists
    \/ Metadata
    \/ Render
    \/ DefaultText
    \/ WorldChange

RegSpec == Init /\ [][RegNext]_vars

\* the steps of the main loop among those of RegNext
RegTick ==
    \/ UpdatePlayerList
    \/ RemoveLoop
    \/ AddLoop
    \/ SelectPlayerToDisplay
    \/ SelectNegative
    \/ SelectReturn
    \/ IsPlaying
    \/ Exists
    \/ Metadata
    \/ Render
    \/ DefaultText

\* `while True` (line 463): the loop goes on as long as no exception ends it
LiveSpec == RegSpec /\ WF_vars(RegTick)

(***************************************************************************)
(* The scrolling of one player's text: the window length and the texts are *)
(* drawn from bounded sets, player 1 is there for good, plays and pauses,  *)
(* and its track changes.  No signal arrives.                              *)
(***************************************************************************)
Texts == SeqsUpTo(Chars, MaxText)

ScrollInit ==
    /\ player_list = <<>>
    /\ display_index = 0
    /\ scrolling_msg_len \in 1..MaxWindow
    /\ status \in {[n \in Names |-> IF n = 1 THEN st ELSE "NoPlayer"] :
                     st \in {"Playing", "Paused"}}
    /\ media \in {[n \in Names |-> IF n = 1 THEN text ELSE <<>>] : text \in Texts}
    /\ pc = "update_player_list"
    /\ error = "none"
    /\ Locals0

\* the player is paused or resumed
PlayPause ==
    /\ pc \in QueryPoints
    /\ status' = [status EXCEPT ![1] = IF @ = "Playing" THEN "Paused" ELSE "Playing"]
    /\ UNCHANGED <<player_list, display_index, scrolling_msg_len, media, pc, new_list,
                   it, loaded_index, active_player, playing, error, snapshot, old_list,
                   seen_stopped, index_at_call, last_active, first_stopped>>

\* the player goes on to another track
TrackChange ==
    /\ pc = "update_player_list"
    /\ \E text \in Texts \ {media[1]} : media' = [media EXCEPT ![1] = text]
    /\ UNCHANGED <<player_list, display_index, scrolling_msg_len, status, pc, new_list,
                   it, loaded_index, active_player, playing, error, snapshot, old_list,
                   seen_stopped, index_at_call, last_active, first_stopped>>

ScrollNext ==
    \/ UpdatePlayerList
    \/ RemoveLoop
    \/ AddLoop
    \/ SelectPlayerToDisplay
    \/ SelectReturn
    \/ IsPlaying
    \/ Exists
    \/ Metadata
    \/ Render
    \/ PlayPause
    \/ TrackChange

ScrollSpec == ScrollInit /\ [][ScrollNext]_vars

(***************************************************************************)
(* The text of one player from the record playerctl prints: the records    *)
(* are drawn from a bounded set, player 1 is there for good, playing or    *)
(* paused.  No signal arrives.                                             *)
(***************************************************************************)
RecordChars == {",", "/", "%", "2", "0", "a"}

Records == SeqsUpTo(RecordChars, MaxRecord)

MetaInit ==
    /\ player_list = <<>>
    /\ display_index = 0
    /\ scrolling_msg_len = Config_scrolling_msg_len
    /\ status \in {[n \in Names |-> IF n = 1 THEN st ELSE "NoPlayer"] :
                     st \in {"Playing", "Paused"}}
    /\ media \in {[n \in Names |-> IF n = 1 THEN record ELSE <<>>] : record \in Records}
    /\ pc = "update_player_list"
    /\ error = "none"
    /\ Locals0

MetaNext ==
    \/ UpdatePlayerList
    \/ RemoveLoop
    \/ AddLoop
    \/ SelectPlayerToDisplay
    \/ SelectReturn
    \/ IsPlaying
    \/ Exists
    \/ MetadataRecord
    \/ Render

MetaSpec == MetaInit /\ [][MetaNext]_vars

(***************************************************************************)
(* The properties.                                                         *)
(***************************************************************************)
\* a is b with some of its elements left out
IsSubsequence(a, b) ==
    \E f \in [1..Len(a) -> 1..Len(b)] :
        /\ \A i, j \in 1..Len(a) : i < j => f[i] < f[j]
        /\ \A i \in 1..Len(a) : a[i] = b[f[i]]

\* _update_player_list has just returned
Reconciled == pc = "select"

\* _select_player_to_display has just returned
Selected == pc \in {"is_playing", "default_text"}

\* the names whose status the reconciliation that has just returned has queried
Queried == IF Len(snapshot) = Len(old_list) THEN {} ELSE Range(new_list)

\* C1: when _update_player_list returns, every tracked Player's name is in the
\* snapshot it was given, and every name of the snapshot that is not tracked was
\* seen Stopped by it.
C1_RegistryIsSnapshotMinusStopped ==
    Reconciled =>
        /\ PlayerNames(player_list) \subseteq Range(snapshot)
        /\ \A n \in Range(snapshot) \ PlayerNames(player_list) : n \in seen_stopped

\* C2: no two Players of the registry have the same name, in any state.
C2_NoSharedIdentifier ==
    \A a, b \in 1..Len(player_list) :
        a # b => player_list[a].player_name # player_list[b].player_name

\* C3: when _update_player_list has returned, a second call with the same
\* snapshot, every player having the status the first call saw, leaves the
\* registry as the first call left it.
C3_ReconcileIdempotent ==
    (/\ Reconciled
     /\ Available(status) = Range(snapshot)
     /\ \A n \in Queried : (n \in seen_stopped) <=> (status[n] = "Stopped"))
    => update_player_list(player_list, snapshot, status) = player_list

C5_SelectInRange ==
    /\ error # "IndexError"
    /\ Selected =>
          /\ (active_player = 0) <=> (Len(player_list) = 0)
          /\ (pc = "default_text") <=> (Len(player_list) = 0)
          /\ active_player \in 0..Len(player_list)
          /\ Len(player_list) <= 1 => display_index = 0
          /\ Len(player_list) >= 1 =>
                /\ 0 <= display_index
                /\ display_index < Len(player_list)
                /\ active_player = display_index + 1

\* a Player has been selected, of two or more, from an index out of range
C5_Witness ==
    /\ pc = "is_playing"
    /\ Len(player_list) >= 2
    /\ index_at_call \notin 0..(Len(player_list) - 1)

\* C6: the signals arriving between ticks only, the Player selected from a
\* registry that is not empty is the one at (display_index before the call) mod len.
C6_PositionIsIndexModLen ==
    pc = "is_playing" => active_player = (index_at_call % Len(player_list)) + 1

\* C7: whenever the signals arrive, line 437 reads a position of the registry:
\* the selection never ends in IndexError.
C7_SelectNeverFails == error # "IndexError"

\* C8: a store of lines 432 and 435 stores what lines 431-435 make of the index
\* as it is when the store happens: no cycle_player or reverse_cycle_player that
\* ran before the store is overwritten.
C8_CycleNotOverwritten ==
    [][(\/ pc = "select_mod_store" /\ pc' = "select_negative"
        \/ pc = "select_negative_store" /\ pc' = "select_return")
       => display_index' = clamped_index(display_index, Len(player_list))]_vars

\* C9: no failure of a playerctl query ends the loop.
C9_QueryFailureNeverEndsLoop == error # "CalledProcessError"

\* C10: the text _update_scrolling_text has cached for a playing player is
\* scrolling_msg_len long.
C10_WindowLength ==
    (pc = "render" /\ playing) =>
        Len(player_list[active_player].display_text) = scrolling_msg_len

\* the start index after a number of scroll updates of a player that plays the
\* same text all along
RECURSIVE offset_after(_, _, _)
offset_after(metadata, start_index, updates) ==
    IF updates = 0
    THEN start_index
    ELSE offset_after(metadata, next_start_index(metadata, start_index), updates - 1)

\* C11: a scroll update of a playing player advances its start index by one
\* modulo the length of the text with its separator, and as many updates as
\* that length, the text staying the same, bring the start index back to the
\* value it had before the first of them.
C11_ScrollIsPeriodic ==
    [][(pc = "metadata" /\ playing /\ pc' = "render") =>
        LET player == player_list[active_player]
            text == media[player.player_name]
            period == Len(full_media_text(text))
        IN /\ player_list'[active_player].display_text_start_index =
                 (player.display_text_start_index + 1) % period
           /\ offset_after(text, player.display_text_start_index, period) =
                 player.display_text_start_index]_vars

\* C12 as the specification states it: the text center_text returns is
\* msg_display_len long, whatever the text, truncated or padded.
C12_CenteredLengthIsTarget ==
    [][(pc = "metadata" /\ ~playing /\ pc' = "render") =>
        Len(player_list'[active_player].display_text) = scrolling_msg_len]_vars

\* C12: the text center_text returns is msg_display_len long when the text to
\* center is at least that long, and msg_display_len - 1 long when it is
\* shorter (center_text("abc", 7) is the six characters "  abc ").
C12_CenteredLength ==
    [][(pc = "metadata" /\ ~playing /\ pc' = "render") =>
        LET text == media[player_list[active_player].player_name]
        IN Len(player_list'[active_player].display_text) =
              IF Len(text) >= scrolling_msg_len
              THEN scrolling_msg_len
              ELSE scrolling_msg_len - 1]_vars

\* a paused player has been given its centred text, shorter than the window
C12_Witness ==
    /\ pc = "render"
    /\ ~playing
    /\ LET player == player_list[active_player]
           text == media[player.player_name]
       IN /\ 0 < Len(text)
          /\ Len(text) < scrolling_msg_len
          /\ player.display_text_start_index = 0
          /\ player.display_text = center_text(text, scrolling_msg_len)
          /\ Len(player.display_text) = scrolling_msg_len - 1

\* C13: cycle_player and reverse_cycle_player set display_index to 0 when the
\* registry holds one player or none, and otherwise add exactly 1 and subtract
\* exactly 1, without bringing the index into the range of the registry; they
\* change nothing else of the program.
C13_CycleMovesIndexByOne ==
    [][/\ (pc = "update_player_list" /\ pc' = pc /\ status' = status) =>
            /\ IF Len(player_list) <= 1
               THEN display_index' = 0
               ELSE display_index' \in {display_index + 1, display_index - 1}
            /\ UNCHANGED <<player_list, scrolling_msg_len, media, new_list, it,
                           loaded_index, active_player, playing, error>>
       /\ (CyclePlayer /\ Len(player_list) >= 2) => display_index' = display_index + 1
       /\ (ReverseCyclePlayer /\ Len(player_list) >= 2) =>
            display_index' = display_index - 1]_vars

\* a signal has left the index beyond the end of a registry of two players or more
C13_Witness ==
    /\ pc = "update_player_list"
    /\ last_active = 0
    /\ Len(player_list) >= 2
    /\ display_index >= Len(player_list)

\* _select_player_to_display has just returned, and the tick before this one
\* selected a player, no signal having arrived since
SelectedAgain == pc \in {"is_playing", "default_text"} /\ last_active # 0

\* C14: when no signal has arrived since the last tick ended and the registry
\* holds the same players in the same order as at the last tick, the selection
\* returns the player it returned at the last tick, whatever the players'
\* statuses are or have become.
C14_NoAutoSwitch ==
    (SelectedAgain /\ player_list = old_list) => active_player = last_active

\* C15 as the specification states it: a player that reconcile found Stopped
\* when it met it is never added to the registry while every list query
\* lists it, even when it plays later.
C15_StoppedNeverAdded ==
    Reconciled => first_stopped \cap PlayerNames(player_list) = {}

\* C15: a player that reconcile found Stopped when it met it is not added then,
\* but every later reconcile whose snapshot and registry differ in length asks
\* for its status again, and adds it unless it is Stopped again.
C15_StoppedAddedOnceNotStopped ==
    (Reconciled /\ Len(snapshot) # Len(old_list)) =>
        \A n \in first_stopped :
            n \in PlayerNames(player_list) <=> n \notin seen_stopped

\* a reconcile has added a player that an earlier one had found Stopped
C15_Witness ==
    /\ Reconciled
    /\ \E n \in first_stopped :
          /\ n \in PlayerNames(player_list)
          /\ n \notin PlayerNames(old_list)
          /\ n \notin seen_stopped

\* the steps of a tick that come after the selection of a player
AfterSelection == {"is_playing", "exists", "metadata", "render"}

\* what a step after the selection does to the players
FrozenStep ==
    /\ Len(player_list') = Len(player_list)
    /\ \A k \in 1..Len(player_list) :
          k # active_player => player_list'[k] = player_list[k]
    /\ LET player == player_list[active_player]
           cached == player.display_text # <<>>
       IN /\ (pc = "is_playing" /\ status[player.player_name] \in {"Paused", "Stopped"}
                 /\ cached /\ pc' # pc) =>
                (pc' = "render" /\ player_list'[active_player] = player)
          /\ player_list'[active_player] # player =>
                (pc \in {"exists", "metadata"} /\ (playing \/ ~cached))

\* C16: a tick leaves display_text and display_text_start_index of every player
\* but the selected one as they are; the selected player's are left as they are
\* too when it is not playing and has a cached text, which is then the text put
\* out; they change only for a player found playing or without a cached text.
C16_FrozenWhileNotPlaying == [][(pc \in AfterSelection) => FrozenStep]_vars

\* the second of two players, scrolled before, is selected and not playing: its
\* cached text is put out
C16_Witness ==
    /\ pc = "render"
    /\ ~playing
    /\ Len(player_list) >= 2
    /\ active_player = 2
    /\ player_list[1].display_text # <<>>
    /\ player_list[2].display_text # <<>>
    /\ player_list[2].display_text_start_index > 0

\* C17: when _update_scrolling_text cuts the window of a playing player, the
\* player's start index is a position of the text with its separator, also
\* when the text has just become shorter.
C17_OffsetInRange ==
    (pc = "metadata" /\ playing) =>
        LET player == player_list[active_player]
            text == media[player.player_name]
        IN /\ 0 <= player.display_text_start_index
           /\ player.display_text_start_index < Len(full_media_text(text))

\* the text section 4.4 of the specification describes for a record of three
\* fields or more: the title as it is, or made of the url when it is empty
described_text(record) ==
    LET fields == split(record, ",")
        title == fields[1]
        url == fields[Len(fields)]
        shown_title == IF title # <<>> THEN title ELSE clean_track_title(url)
    IN shown_title \o <<" ", "-", " ">> \o join(SubSeq(fields, 2, Len(fields) - 1), ",")

\* C18: for a record of three comma-separated fields or more, the text shown
\* has the title field as it is when it is not empty, and otherwise the last
\* '/'-segment of the url field with every %20 replaced by a space.
C18_TitleFromUrl ==
    [][(pc = "metadata" /\ pc' = "render") =>
        LET player == player_list[active_player]
            record == media[player.player_name]
        IN Len(split(record, ",")) >= 3 =>
              player_list'[active_player] =
                  scrolled(player, playing, described_text(record), scrolling_msg_len)]_vars

\* the registry holds no name that playerctl does not list, and every listed
\* name whose player is not Stopped
Converged ==
    /\ PlayerNames(player_list) \subseteq Available(status)
    /\ \A n \in Available(status) :
          status[n] # "Stopped" => n \in PlayerNames(player_list)

\* C19: when the listed players and their statuses stay the same from some
\* tick on and no query fails, the registry comes to hold no name that is not
\* listed and every listed name whose player is not Stopped, and stays so.
C19_RegistryConverges ==
    (<>[][status' = status]_vars) => <>[](Converged \/ pc = "crashed")

\* C20: when no signal has arrived since the last tick ended and the player
\* selected at the last tick is still in the registry, the selection returns
\* that player again, even when reconcile has removed players in front of it
\* or added players.
C20_ActivePlayerKept ==
    (SelectedAgain /\ old_list[last_active] \in Range(player_list)) =>
        /\ active_player # 0
        /\ player_list[active_player] = old_list[last_active]

====
